---------------------------- MODULE Spec2Model ----------------------------
(***************************************************************************)
(* A model of sf6rs: the character roster and its pattern lookup           *)
(* (src/src/character.rs), the scrape-and-normalise pipeline and the query *)
(* facade (src/src/framedata.rs), and the sibling loader                   *)
(* (src/src/loader.rs).                                                    *)
(*                                                                         *)
(* Text is modelled by TLA+ strings; Len, SubSeq and \o act on them as on  *)
(* sequences of characters.                                                *)
(***************************************************************************)
EXTENDS Integers, Sequences, FiniteSets, TLC

VARIABLES
    call,        \* the library function a caller invokes, with its arguments
    ret,         \* what that call gave its caller ("pending" before it ran)
    pc,          \* load_all: the position of its body
    spawned,     \* load_all: how many roster entries the for loop has spawned
    task,        \* load_all: the state of each spawned load task
    joinq,       \* load_all: the finished tasks the JoinSet has not yet handed out
    frame_data,  \* load_all: FrameData.character_frame_data, a Vec
    log          \* load_all: the lines written by println!

vars == <<call, ret, pc, spawned, task, joinq, frame_data, log>>

-----------------------------------------------------------------------------
(* Characters of a string.                                                 *)

CharAt(s, i) == SubSeq(s, i, i)

Upper == "ABCDEFGHIJKLMNOPQRSTUVWXYZ"
Lower == "abcdefghijklmnopqrstuvwxyz"

\* u8::to_ascii_lowercase on one character: only A-Z change.
AsciiLowerChar(c) ==
    IF \E i \in 1..Len(Upper) : CharAt(Upper, i) = c
    THEN CharAt(Lower, CHOOSE i \in 1..Len(Upper) : CharAt(Upper, i) = c)
    ELSE c

RECURSIVE AsciiLower(_)
AsciiLower(s) ==
    IF s = "" THEN ""
    ELSE AsciiLowerChar(CharAt(s, 1)) \o AsciiLower(SubSeq(s, 2, Len(s)))

RECURSIVE AsciiUpper(_)
AsciiUpper(s) ==
    IF s = "" THEN ""
    ELSE LET c == CharAt(s, 1)
             u == IF \E i \in 1..Len(Lower) : CharAt(Lower, i) = c
                  THEN CharAt(Upper, CHOOSE i \in 1..Len(Lower) : CharAt(Lower, i) = c)
                  ELSE c
         IN u \o AsciiUpper(SubSeq(s, 2, Len(s)))

\* str::eq_ignore_ascii_case
eq_ignore_ascii_case(a, b) == AsciiLower(a) = AsciiLower(b)

-----------------------------------------------------------------------------
(* The roster (character.rs).                                              *)

CharacterId(id, frame_data_id, gif_data_id, regex) ==
    [id |-> id, frame_data_id |-> frame_data_id, gif_data_id |-> gif_data_id,
     regex_str |-> regex]

RYU      == CharacterId("ryu", "Ryu", "ryu", "ryu")
LUKE     == CharacterId("luke", "Luke", "luke", "luke")
JAMIE    == CharacterId("jamie", "Jamie", "jamie", "jamie")
CHUNLI   == CharacterId("chunli", "Chun-Li", "chunli", "chun(-?li)?")
GUILE    == CharacterId("guile", "Guile", "guile", "guile")
KIMBERLY == CharacterId("kimberly", "Kimberly", "kimberly", "kim(berly)?")
JURI     == CharacterId("juri", "Juri", "juri", "juri")
KEN      == CharacterId("ken", "Ken", "ken", "ken")
BLANKA   == CharacterId("blanka", "Blanka", "blanka", "blanka")
DHALSIM  == CharacterId("dhalsim", "Dhalsim", "dhalsim", "(dh?al)?sim")
EHONDA   == CharacterId("ehonda", "E.Honda", "ehonda", "e?honda")
DEEJAY   == CharacterId("deejay", "Dee_Jay", "deejay", "d(ee)?j(ay)?")
MANON    == CharacterId("manon", "Manon", "manon", "manon")
MARISA   == CharacterId("marisa", "Marisa", "marisa", "marisa")
JP       == CharacterId("jp", "JP", "jp", "jp")
ZANGIEF  == CharacterId("zangief", "Zangief", "zangief", "(zan)?gief")
LILY     == CharacterId("lily", "Lily", "lily", "lily")
CAMMY    == CharacterId("cammy", "Cammy", "cammy", "cammy")
RASHID   == CharacterId("rashid", "Rashid", "rashid", "rashid")
AKI      == CharacterId("aki", "A.K.I.", "aki", "a\\.?k\\.?i\\.?")
ED       == CharacterId("ed", "Ed", "ed", "ed")
AKUMA    == CharacterId("akuma", "Akuma", "akuma", "akuma|gouki")
MBISON   == CharacterId("mbison", "M.Bison", "mbison", "bison")

CHARACTERS ==
    << RYU, LUKE, JAMIE, CHUNLI, GUILE, KIMBERLY, JURI, KEN, BLANKA, DHALSIM, EHONDA,
       DEEJAY, MANON, MARISA, JP, ZANGIEF, LILY, CAMMY, RASHID, AKI, ED, AKUMA, MBISON >>

\* impl PartialEq for CharacterId: equal when the ids are equal.
CharacterIdEq(a, b) == a.id = b.id

None == [some |-> FALSE]
Some(v) == [some |-> TRUE, value |-> v]

Max(S) == CHOOSE x \in S : \A y \in S : y <= x
Min(S) == CHOOSE x \in S : \A y \in S : x <= y

\* Iterator::find over a sequence, given the set of indices whose element
\* satisfies the predicate: the first such element, or None.
Find(seq, hits) == IF hits = {} THEN None ELSE Some(seq[Min(hits)])

-----------------------------------------------------------------------------
(* The regex crate, for the syntax this repository uses: literals,         *)
(* escapes, \S, groups, '?', '+', '|', '^', '$' and a leading (?i).        *)
(* EndsAlt(p, s, i, ci) is the set of offsets at which a match of p that   *)
(* starts at offset i of s can end; alternation binds weakest, as in the   *)
(* crate.  Case folding is modelled on ASCII letters, the only cased       *)
(* letters of the patterns and texts used here.                            *)

\* The length of the atom that p starts with: an escape, a group or one character.
RECURSIVE GroupLen(_, _, _)
GroupLen(p, k, depth) ==
    \* k: the index being looked at, depth: open groups before it
    IF k > Len(p) THEN Len(p)
    ELSE LET c == CharAt(p, k) IN
         IF c = "\\" THEN GroupLen(p, k + 2, depth)
         ELSE IF c = "(" THEN GroupLen(p, k + 1, depth + 1)
         ELSE IF c = ")" THEN (IF depth = 1 THEN k ELSE GroupLen(p, k + 1, depth - 1))
         ELSE GroupLen(p, k + 1, depth)

AtomLen(p) ==
    IF CharAt(p, 1) = "\\" THEN 2
    ELSE IF CharAt(p, 1) = "(" THEN GroupLen(p, 1, 0)
    ELSE 1

\* The index of the first '|' of p outside every group, or 0.
RECURSIVE TopBar(_, _, _)
TopBar(p, k, depth) ==
    IF k > Len(p) THEN 0
    ELSE LET c == CharAt(p, k) IN
         IF c = "\\" THEN TopBar(p, k + 2, depth)
         ELSE IF c = "(" THEN TopBar(p, k + 1, depth + 1)
         ELSE IF c = ")" THEN TopBar(p, k + 1, depth - 1)
         ELSE IF c = "|" /\ depth = 0 THEN k
         ELSE TopBar(p, k + 1, depth)

CharMatches(pc1, tc, ci) ==
    IF ci THEN AsciiLowerChar(pc1) = AsciiLowerChar(tc) ELSE pc1 = tc

Whitespace == { " ", "\t", "\n", "\r" }

RECURSIVE EndsAlt(_, _, _, _), EndsCat(_, _, _, _), EndsAtom(_, _, _, _)
RECURSIVE EndsPlus(_, _, _, _, _)
EndsAlt(p, s, i, ci) ==
    LET bar == TopBar(p, 1, 0) IN
    IF bar = 0 THEN EndsCat(p, s, i, ci)
    ELSE EndsCat(SubSeq(p, 1, bar - 1), s, i, ci)
         \cup EndsAlt(SubSeq(p, bar + 1, Len(p)), s, i, ci)

EndsCat(p, s, i, ci) ==
    IF p = "" THEN {i}
    ELSE LET n     == AtomLen(p)
             opt   == n < Len(p) /\ CharAt(p, n + 1) = "?"
             plus  == n < Len(p) /\ CharAt(p, n + 1) = "+"
             rest  == SubSeq(p, (IF opt \/ plus THEN n + 2 ELSE n + 1), Len(p))
             once  == EndsAtom(SubSeq(p, 1, n), s, i, ci)
             after == IF opt THEN once \cup {i}
                      ELSE IF plus THEN EndsPlus(SubSeq(p, 1, n), s, once, once, ci)
                      ELSE once
         IN UNION { EndsCat(rest, s, j, ci) : j \in after }

\* One or more repetitions of atom a: seen are the ends reached so far, frontier
\* those not yet extended.
EndsPlus(a, s, seen, frontier, ci) ==
    LET more == (UNION { EndsAtom(a, s, j, ci) : j \in frontier }) \ seen IN
    IF more = {} THEN seen ELSE EndsPlus(a, s, seen \cup more, more, ci)

EndsAtom(a, s, i, ci) ==
    LET c == CharAt(a, 1) IN
    IF c = "^" THEN (IF i = 0 THEN {i} ELSE {})
    ELSE IF c = "$" THEN (IF i = Len(s) THEN {i} ELSE {})
    ELSE IF c = "(" THEN EndsAlt(SubSeq(a, 2, Len(a) - 1), s, i, ci)
    ELSE IF i >= Len(s) THEN {}
    ELSE IF c = "\\" /\ CharAt(a, 2) = "S"
         THEN (IF CharAt(s, i + 1) \notin Whitespace THEN {i + 1} ELSE {})
    ELSE IF c = "\\" THEN (IF CharMatches(CharAt(a, 2), CharAt(s, i + 1), ci) THEN {i + 1} ELSE {})
    ELSE IF CharMatches(c, CharAt(s, i + 1), ci) THEN {i + 1} ELSE {}

\* Regex::new(re) followed by Regex::is_match(text): a match anywhere in the text.
\* A leading "(?i)" switches case-insensitive matching on for the whole pattern.
Regex_is_match(re, text) ==
    LET ci   == Len(re) >= 4 /\ SubSeq(re, 1, 4) = "(?i)"
        body == IF ci THEN SubSeq(re, 5, Len(re)) ELSE re
    IN \E i \in 0..Len(text) : EndsAlt(body, text, i, ci) # {}

\* CharacterId::regex: format!(r"(?i)^{}$", self.regex_str)
regex(c) == "(?i)^" \o c.regex_str \o "$"

\* get_character_by_regex
get_character_by_regex(input) ==
    Find(CHARACTERS, { i \in 1..Len(CHARACTERS) : Regex_is_match(regex(CHARACTERS[i]), input) })

\* get_character_by_id
get_character_by_id(input) ==
    Find(CHARACTERS, { i \in 1..Len(CHARACTERS) : CHARACTERS[i].id = input })

-----------------------------------------------------------------------------
(* Calls of the library's synchronous functions: a caller's pending call   *)
(* and what it got back.                                                   *)

Pending == [state |-> "pending"]
Returned(v) == [state |-> "returned", value |-> v]

\* load_all is not running.
LoadAllIdle ==
    /\ pc = "idle"
    /\ spawned = 0
    /\ task = <<>>
    /\ joinq = <<>>
    /\ frame_data = <<>>
    /\ log = <<>>

LoadAllVars == <<pc, spawned, task, joinq, frame_data, log>>

-----------------------------------------------------------------------------
(* Pattern lookup: get_character_by_regex applied to free text.            *)

MaxPad == 2

\* Names and nicknames a caller may type.
Words ==
    { "ryu", "luke", "jamie", "chun", "chunli", "chun-li", "guile", "kim", "kimberly",
      "juri", "ken", "blanka", "sim", "dalsim", "dhalsim", "honda", "ehonda", "dj",
      "deej", "djay", "deejay", "manon", "marisa", "jp", "gief", "zangief", "lily",
      "cammy", "rashid", "aki", "a.k.i.", "a.ki", "ed", "akuma", "gouki", "bison",
      "mbison", "", "li", "berly" }

PadChars == { "i", "x" }

RECURSIVE Pads(_)
Pads(n) ==
    IF n = 0 THEN { "" }
    ELSE Pads(n - 1) \cup { p \o c : p \in Pads(n - 1), c \in PadChars }

\* A word with at most n characters put before and after it, in either case.
RegexInputs(n) ==
    LET pairs  == { pq \in Pads(n) \X Pads(n) : Len(pq[1]) + Len(pq[2]) <= n }
        padded == { pq[1] \o w \o pq[2] : pq \in pairs, w \in Words }
    IN padded \cup { AsciiUpper(t) : t \in padded }

InitRegex ==
    /\ call \in { [op |-> "get_character_by_regex", input |-> t] : t \in RegexInputs(MaxPad) }
    /\ ret = Pending
    /\ LoadAllIdle

Call_get_character_by_regex ==
    /\ call.op = "get_character_by_regex"
    /\ ret = Pending
    /\ ret' = Returned(get_character_by_regex(call.input))
    /\ UNCHANGED <<call, LoadAllVars>>

NextRegex == Call_get_character_by_regex

SpecRegex == InitRegex /\ [][NextRegex]_vars

\* The pattern of c matches the whole of text, ignoring case.
WholeMatch(c, text) == Len(text) \in EndsAlt(c.regex_str, text, 0, TRUE)

FirstWholeMatch(text) ==
    Find(CHARACTERS, { i \in 1..Len(CHARACTERS) : WholeMatch(CHARACTERS[i], text) })

C4_AllButAkumaWhole ==
    ret # Pending =>
        \/ ret.value = FirstWholeMatch(call.input)
        \/ /\ ret.value.some
           /\ ret.value.value = AKUMA
           /\ ~WholeMatch(AKUMA, call.input)

-----------------------------------------------------------------------------
(* The parsed document, as far as the selectors of framedata.rs look at    *)
(* it.  A data table (a "block") is a sequence of rows; a row holds the    *)
(* children of its th cells and its td cells, in document order.           *)
(*   th child:  [tag |-> "a", html |-> outer markup]                       *)
(*              [tag |-> "div", kids |-> <<p or div, ...>>]                *)
(*   div kid:   [tag |-> "p", spans |-> <<inner markup of each span>>]     *)
(*              [tag |-> "div", inner_html |-> inner markup]               *)
(*   td cell:   [text |-> its own text, kids |-> its element children]     *)

Anchor(html) == [tag |-> "a", html |-> html]
Div(kids) == [tag |-> "div", kids |-> kids]
P(spans) == [tag |-> "p", spans |-> spans]
NameDiv(text) == [tag |-> "div", inner_html |-> text]
Leaf(text) == [text |-> text, kids |-> <<>>]
Wrap(text, kids) == [text |-> text, kids |-> kids]
Row(th, td) == [th |-> th, td |-> td]

RECURSIVE Concat(_)
Concat(seqs) == IF seqs = <<>> THEN <<>> ELSE Head(seqs) \o Concat(Tail(seqs))

ThChildren(block) == Concat([i \in 1..Len(block.rows) |-> block.rows[i].th])

\* ElementRef::inner_html of an element without element children: its text.
inner_html(node) == node.text

\* INPUT_SELECTOR "tr > th > div > p > span": the inner markup of each match.
select_INPUT(block) ==
    LET divs == SelectSeq(ThChildren(block), LAMBDA e : e.tag = "div")
        ps   == SelectSeq(Concat([i \in 1..Len(divs) |-> divs[i].kids]),
                          LAMBDA e : e.tag = "p")
    IN Concat([i \in 1..Len(ps) |-> ps[i].spans])

\* A variant of select_NAME that also takes the p children of the header divs.
select_NAME_any_child(block) ==
    LET divs  == SelectSeq(ThChildren(block), LAMBDA e : e.tag = "div")
        inner == Concat([i \in 1..Len(divs) |-> divs[i].kids])
    IN [i \in 1..Len(inner) |-> IF inner[i].tag = "div" THEN inner[i].inner_html ELSE ""]

\* NAME_SELECTOR "tr > th > div > div": the inner markup of each match.
select_NAME(block) ==
    LET divs  == SelectSeq(ThChildren(block), LAMBDA e : e.tag = "div")
        inner == SelectSeq(Concat([i \in 1..Len(divs) |-> divs[i].kids]),
                           LAMBDA e : e.tag = "div")
    IN [i \in 1..Len(inner) |-> inner[i].inner_html]

\* HITBOX_IMAGE_ELEMENT_SELECTOR "tr > th > a": the outer markup of each match.
select_HITBOX_IMAGE_ELEMENT(block) ==
    LET as == SelectSeq(ThChildren(block), LAMBDA e : e.tag = "a")
    IN [i \in 1..Len(as) |-> as[i].html]

\* DATA_ROW_SELECTOR "tr > td"
select_DATA_ROW(block) == Concat([i \in 1..Len(block.rows) |-> block.rows[i].td])

\* get_lowest_child: follow first_element_child until there is none.
RECURSIVE get_lowest_child(_)
get_lowest_child(parent) ==
    IF parent.kids = <<>> THEN parent ELSE get_lowest_child(Head(parent.kids))

DEFAULT_IMAGE == "https://wiki.supercombo.gg/images/thumb/4/42/SF6_Logo.png/300px-SF6_Logo.png"

\* HITBOX_IMAGE_URL_REGEX is "(" HITBOX_GROUP ")" HITBOX_TAIL.
HITBOX_GROUP == "/images/thumb\\S+"
HITBOX_TAIL == " 2x"

\* The group of the leftmost match, as long as the greedy \S+ can make it, given
\* for each start offset the ends of the group that the rest of the pattern
\* can follow.
LeftmostGreedy(element, ends) ==
    LET starts == { i \in 0..Len(element) : ends[i] # {} } IN
    IF starts = {} THEN None
    ELSE Some(SubSeq(element, Min(starts) + 1, Max(ends[Min(starts)])))

\* Regex::captures(element) and caps.get(1)
HitboxCaptures(element) ==
    LeftmostGreedy(element,
        [i \in 0..Len(element) |->
            { j \in EndsAlt(HITBOX_GROUP, element, i, FALSE) :
                EndsAlt(HITBOX_TAIL, element, j, FALSE) # {} }])

\* format!("https://wiki.supercombo.gg/{}", s) on the capture, None without one.
FormatCapture(caps) ==
    IF caps.some THEN Some("https://wiki.supercombo.gg/" \o caps.value) ELSE None

\* hitbox_image_matcher
hitbox_image_matcher(element) == FormatCapture(HitboxCaptures(element))

\* Option::and_then(hitbox_image_matcher), Option::or, Option::unwrap_or_else
and_then_hitbox_image_matcher(opt) ==
    IF opt.some THEN hitbox_image_matcher(opt.value) ELSE None
or(a, b) == IF a.some THEN a ELSE b
unwrap_or(opt, default) == IF opt.some THEN opt.value ELSE default

\* Iterator::next and Iterator::nth on the rest of a sequence.
IterNth(it, n) ==
    IF Len(it) <= n THEN [item |-> None, rest |-> <<>>]
    ELSE [item |-> Some(it[n + 1]), rest |-> SubSeq(it, n + 2, Len(it))]
IterNext(it) == IterNth(it, 0)

\* The statistic fields of Move, in the order parse_move binds them.
StatFields ==
    << "damage", "chip_damage", "damage_scaling", "guard", "cancel", "hitconfirm_window",
       "startup", "active", "recovery", "total", "hitstun", "blockstun",
       "drive_damage_block", "drive_damage_hit", "drive_gain", "super_gain_hit",
       "super_gain_block", "projectile_speed", "invuln", "armor", "airborne",
       "juggle_start", "juggle_increase", "juggle_limit", "perfect_parry_advantage",
       "after_dr_hit", "after_dr_block", "dr_cancel_hit", "dr_cancel_block",
       "punish_advantage", "hit_advantage", "block_advantage", "notes" >>

StatIndex(f) == CHOOSE i \in 1..Len(StatFields) : StatFields[i] = f

MoveFields ==
    { "identifier", "input", "name", "image_link" }
        \cup { StatFields[i] : i \in 1..Len(StatFields) }

\* How many items each binding skips before it takes one: data.next() skips none.
Skips_framedata == [i \in 1..Len(StatFields) |-> 0]

\* loader.rs binds hit_advantage with data.nth(10).
HitAdvantageNth == 10
Skips_loader ==
    [i \in 1..Len(StatFields) |->
        IF StatFields[i] = "hit_advantage" THEN HitAdvantageNth ELSE 0]

\* The bindings from the i-th on, drawn one after the other from the iterator.
RECURSIVE BindStats(_, _, _)
BindStats(it, skips, i) ==
    IF i > Len(StatFields) THEN <<>>
    ELSE LET r == IterNth(it, skips[i])
         IN <<unwrap_or(r.item, "-")>> \o BindStats(r.rest, skips, i + 1)

\* A variant of hitbox_image_url that prefers the first anchor: image.or(hitbox).
hitbox_image_url_first(block) ==
    LET select == select_HITBOX_IMAGE_ELEMENT(block)
        first  == IterNext(select)
        second == IterNext(first.rest)
        image  == and_then_hitbox_image_matcher(first.item)
        hitbox == and_then_hitbox_image_matcher(second.item)
    IN unwrap_or(or(image, hitbox), DEFAULT_IMAGE)

\* The image link of parse_move: the first two matches of the anchor selector.
hitbox_image_url(block) ==
    LET select == select_HITBOX_IMAGE_ELEMENT(block)
        first  == IterNext(select)
        second == IterNext(first.rest)
        image  == and_then_hitbox_image_matcher(first.item)
        hitbox == and_then_hitbox_image_matcher(second.item)
    IN unwrap_or(or(hitbox, image), DEFAULT_IMAGE)

\* The body of parse_move, the two files differing in the skips only.
ParseMoveWith(identifier, block, skips) ==
    LET input == IterNext(select_INPUT(block)).item
        name  == IterNext(select_NAME(block)).item
        cells == select_DATA_ROW(block)
        data  == [i \in 1..Len(cells) |-> inner_html(get_lowest_child(cells[i]))]
        stats == BindStats(data, skips, 1)
    IN IF ~input.some THEN None
       ELSE IF ~name.some THEN None
       ELSE Some([f \in MoveFields |->
                    CASE f = "identifier" -> identifier
                      [] f = "input"      -> input.value
                      [] f = "name"       -> name.value
                      [] f = "image_link" -> hitbox_image_url(block)
                      [] OTHER            -> stats[StatIndex(f)]])

\* framedata.rs: parse_move
parse_move(identifier, block) == ParseMoveWith(identifier, block, Skips_framedata)

\* loader.rs: parse_move
loader_parse_move(identifier, block) == ParseMoveWith(identifier, block, Skips_loader)

-----------------------------------------------------------------------------
(* parse_move applied to data tables.                                      *)

MaxDivs == 2         \* th > div elements of a table
MaxAnchors == 3      \* th > a elements of a table
MaxSmallCells == 1   \* td cells of the tables that vary their header
MaxCells == 44       \* td cells of the tables that vary their data

\* Sequences of at most n elements of S.
RECURSIVE SeqsUpTo(_, _)
SeqsUpTo(S, n) ==
    IF n = 0 THEN { <<>> }
    ELSE SeqsUpTo(S, n - 1)
         \cup { Append(q, x) : q \in { r \in SeqsUpTo(S, n - 1) : Len(r) = n - 1 }, x \in S }

D_BOTH  == Div(<< P(<<"5LP">>), NameDiv("Stand LP") >>)
D_INPUT == Div(<< P(<<"2MK">>) >>)
D_NAME  == Div(<< NameDiv("Crouch MK") >>)

A_ICON   == Anchor("<a><img srcset=\"/images/thumb/i.png 1.5x, /images/thumb/i/2x.png 2x\"></a>")
A_HITBOX == Anchor("<a><img srcset=\"/images/thumb/h.png 2x\"></a>")
A_PLAIN  == Anchor("<a href=\"/images/thumb/p.png\">2x</a>")

\* The i-th td cell.  The cell at position mark is written in the given style:
\* its text wrapped in nested elements, a cell with no content, a cell whose
\* first element child is an empty element, or a cell with two element children.
DataCell(i, mark, style) ==
    IF i # mark THEN Leaf("c" \o ToString(i))
    ELSE CASE style = "wrapped" -> Wrap("", << Wrap("", << Leaf("w" \o ToString(i)) >>) >>)
           [] style = "empty"   -> Leaf("")
           [] style = "br"      -> Wrap("t" \o ToString(i), << Leaf("") >>)
           [] style = "two"     -> Wrap("", << Leaf("a" \o ToString(i)), Leaf("b" \o ToString(i)) >>)

Styles == { "wrapped", "empty", "br", "two" }

DataCells(k, mark, style) == [i \in 1..k |-> DataCell(i, mark, style)]

Table(th, td) ==
    [class_wikitable |-> TRUE,
     rows |-> <<Row(th, <<>>)>> \o (IF td = <<>> THEN <<>> ELSE <<Row(<<>>, td)>>)]

\* The tables parse_move is applied to: tables that vary their header divs, with
\* and without anchors and data cells; tables that vary their anchors; tables
\* that vary their data cells.
ParseBlocks(divs, anchors, small, cells) ==
    { Table(d \o a, DataCells(k, 0, "wrapped")) :
        d \in SeqsUpTo({D_BOTH, D_INPUT, D_NAME}, divs),
        a \in { <<>>, <<A_ICON, A_HITBOX>> },
        k \in 0..small }
    \cup
    { Table(a \o d, <<>>) :
        d \in { <<D_BOTH>>, <<D_NAME>> },
        a \in SeqsUpTo({A_ICON, A_HITBOX, A_PLAIN}, anchors) }
    \cup
    { Table(<<D_BOTH>>, DataCells(km[1], km[2], st)) :
        km \in { x \in (0..cells) \X (0..cells) : x[2] <= x[1] },
        st \in Styles }

InitParse ==
    /\ call \in { [op |-> f, identifier |-> "5LP(charged)", block |-> b] :
                    f \in { "framedata::parse_move", "loader::parse_move" },
                    b \in ParseBlocks(MaxDivs, MaxAnchors, MaxSmallCells, MaxCells) }
    /\ ret = Pending
    /\ LoadAllIdle

Call_parse_move ==
    /\ call.op = "framedata::parse_move"
    /\ ret = Pending
    /\ ret' = Returned(parse_move(call.identifier, call.block))
    /\ UNCHANGED <<call, LoadAllVars>>

Call_loader_parse_move ==
    /\ call.op = "loader::parse_move"
    /\ ret = Pending
    /\ ret' = Returned(loader_parse_move(call.identifier, call.block))
    /\ UNCHANGED <<call, LoadAllVars>>

NextParse == Call_parse_move \/ Call_loader_parse_move

SpecParse == InitParse /\ [][NextParse]_vars

\* What a table holds, read off its rows without the selectors.
HasInputCell(block) ==
    \E r \in 1..Len(block.rows) : \E t \in 1..Len(block.rows[r].th) :
        LET e == block.rows[r].th[t] IN
        /\ e.tag = "div"
        /\ \E k \in 1..Len(e.kids) : e.kids[k].tag = "p" /\ e.kids[k].spans # <<>>

HasNameCell(block) ==
    \E r \in 1..Len(block.rows) : \E t \in 1..Len(block.rows[r].th) :
        LET e == block.rows[r].th[t] IN
        /\ e.tag = "div"
        /\ \E k \in 1..Len(e.kids) : e.kids[k].tag = "div"

AnchorsOf(block) == SelectSeq(ThChildren(block), LAMBDA e : e.tag = "a")

ParseReturned == call.op \in { "framedata::parse_move", "loader::parse_move" } /\ ret # Pending

\* C7: parse_move yields no Move whenever the table has no input-notation cell or
\* no title cell, whatever else it holds, and yields a Move whenever it has both.
C7_MoveIffInputAndName ==
    ParseReturned => (ret.value.some <=> (HasInputCell(call.block) /\ HasNameCell(call.block)))

\* C7 witness: a table with a title cell, anchors and a data cell but no input cell
\* was parsed, and gave nothing.
C7_Witness ==
    /\ ParseReturned
    /\ ~HasInputCell(call.block)
    /\ HasNameCell(call.block)
    /\ AnchorsOf(call.block) # <<>>
    /\ select_DATA_ROW(call.block) # <<>>
    /\ ret.value = None

\* The value of a td cell: the text of the element reached by descending through
\* first element children.
RECURSIVE CellValue(_)
CellValue(cell) == IF Len(cell.kids) = 0 THEN cell.text ELSE CellValue(cell.kids[1])

\* The i-th statistic is the i-th data cell, or "-" past the last cell.
Positional(move, block) ==
    LET cells == select_DATA_ROW(block) IN
    \A i \in 1..Len(StatFields) :
        move[StatFields[i]] = IF i <= Len(cells) THEN CellValue(cells[i]) ELSE "-"

\* C8: in both parse_move implementations the i-th statistic field of the Move is
\* the value of the i-th data cell when there is one and "-" otherwise; no cell is
\* skipped.
C8_PositionalInBothFiles ==
    (ParseReturned /\ ret.value.some) => Positional(ret.value.value, call.block)

\* The parse_move of framedata.rs binds positionally.
C8_PositionalInFramedata ==
    (call.op = "framedata::parse_move" /\ ret # Pending /\ ret.value.some)
        => Positional(ret.value.value, call.block)

\* The absolute URL each candidate anchor resolves to, if it holds a 2x image.
ResolvedUrl(a) ==
    CASE a = A_ICON   -> Some("https://wiki.supercombo.gg//images/thumb/i/2x.png")
      [] a = A_HITBOX -> Some("https://wiki.supercombo.gg//images/thumb/h.png")
      [] OTHER        -> None

\* C9: image_link is the second candidate anchor's URL if the second matches, else
\* the first candidate's URL if the first matches, else the default placeholder;
\* candidates after the second never count.
C9_ImageFromFirstTwoAnchors ==
    (ParseReturned /\ ret.value.some) =>
        LET as     == AnchorsOf(call.block)
            first  == IF Len(as) >= 1 THEN ResolvedUrl(as[1]) ELSE None
            second == IF Len(as) >= 2 THEN ResolvedUrl(as[2]) ELSE None
        IN ret.value.value.image_link =
              IF second.some THEN second.value
              ELSE IF first.some THEN first.value
              ELSE DEFAULT_IMAGE

\* C9 witness: a Move was produced from a table whose third anchor holds a 2x
\* image while its first two do not, and it carries the default placeholder.
C9_Witness ==
    /\ ParseReturned
    /\ ret.value.some
    /\ Len(AnchorsOf(call.block)) >= 3
    /\ AnchorsOf(call.block)[1] = A_PLAIN
    /\ AnchorsOf(call.block)[2] = A_PLAIN
    /\ AnchorsOf(call.block)[3] = A_HITBOX
    /\ ret.value.value.image_link = DEFAULT_IMAGE

\* C9, the case of the specification: only the second of two anchors matches.
C9_SecondOnlyReached ==
    /\ ParseReturned
    /\ ret.value.some
    /\ AnchorsOf(call.block) = << A_PLAIN, A_HITBOX >>
    /\ ret.value.value.image_link = "https://wiki.supercombo.gg//images/thumb/h.png"

\* C11: in every Move parse_move produces no statistic field is empty: a statistic
\* absent from the source, a data cell without content included, is the
\* placeholder "-".
C11_NoEmptyStatistic ==
    (ParseReturned /\ ret.value.some)
        => \A i \in 1..Len(StatFields) : ret.value.value[StatFields[i]] # ""

\* A statistic field is empty only where the data cell bound to it has no text;
\* a field with no cell is "-".
C11_EmptyOnlyFromEmptyCell ==
    (call.op = "framedata::parse_move" /\ ret # Pending /\ ret.value.some)
        => LET cells == select_DATA_ROW(call.block) IN
           \A i \in 1..Len(StatFields) :
               /\ i > Len(cells) => ret.value.value[StatFields[i]] = "-"
               /\ (i <= Len(cells) /\ CellValue(cells[i]) # "")
                      => ret.value.value[StatFields[i]] # ""

-----------------------------------------------------------------------------
(* A character's page and the single-character load.                       *)
(*                                                                         *)
(* A parsed page (Html) is the sequence of its collapsible sections        *)
(* (div > div > section.section-collapsible); a section is the sequence of *)
(* its child elements:                                                     *)
(*   [tag |-> "h5", spans |-> <<span, ...>>]   a span is a td-like node    *)
(*   [tag |-> "table", class_wikitable |-> ..., rows |-> ...]              *)
(*   [tag |-> "p"]                             any other element           *)
(* An element is referred to by its place: [sec, el] or [sec, el, sp].     *)

H5(spans) == [tag |-> "h5", spans |-> spans]
PARA == [tag |-> "p"]

\* Element::is_empty: the element has no child node at all.
span_is_empty(span) == span.text = "" /\ span.kids = <<>>
table_is_empty(table) == table.rows = <<>>

\* The elements of a section that MOVE_IDENTIFIER_SELECTOR
\* "div > div > section.section-collapsible > h5 > span" matches, in document order.
SpansOfSection(html, sec) ==
    Concat([el \in 1..Len(html[sec]) |->
              IF html[sec][el].tag = "h5"
              THEN [sp \in 1..Len(html[sec][el].spans) |-> [sec |-> sec, el |-> el, sp |-> sp]]
              ELSE <<>>])

SpanAt(html, ref) == html[ref.sec][ref.el].spans[ref.sp]
TableAt(html, ref) == html[ref.sec][ref.el]

\* select_move_identifiers
select_move_identifiers(html) ==
    SelectSeq(Concat([sec \in 1..Len(html) |-> SpansOfSection(html, sec)]),
              LAMBDA ref : ~span_is_empty(SpanAt(html, ref)))

\* The elements of a section that MOVE_BLOCK_SELECTOR
\* "div > div > section.section-collapsible > h5 + table.wikitable" matches: a
\* wikitable whose previous sibling element is an h5.
TablesOfSection(html, sec) ==
    Concat([el \in 1..Len(html[sec]) |->
              IF /\ html[sec][el].tag = "table"
                 /\ html[sec][el].class_wikitable
                 /\ el > 1
                 /\ html[sec][el - 1].tag = "h5"
              THEN << [sec |-> sec, el |-> el] >>
              ELSE <<>>])

\* select_move_blocks
select_move_blocks(html) ==
    SelectSeq(Concat([sec \in 1..Len(html) |-> TablesOfSection(html, sec)]),
              LAMBDA ref : ~table_is_empty(TableAt(html, ref)))

\* std::iter::zip: pairs up to the end of the shorter sequence.
zip(a, b) == [i \in 1..(IF Len(a) <= Len(b) THEN Len(a) ELSE Len(b)) |-> <<a[i], b[i]>>]

\* Iterator::filter_map over a sequence of Options, collected.
RECURSIVE collect_some(_)
collect_some(opts) ==
    IF opts = <<>> THEN <<>>
    ELSE (IF Head(opts).some THEN <<Head(opts).value>> ELSE <<>>) \o collect_some(Tail(opts))

\* What the network does with the GET of a character's page:
\*   [kind |-> "response", status |-> n, body |-> page]  a response arrives whole
\*   [kind |-> "send_error", error |-> e]                 no response (DNS, connect, timeout)
\*   [kind |-> "body_error", status |-> n]                the body cannot be read
Ok(v) == [ok |-> TRUE, value |-> v]
Err(e) == [ok |-> FALSE, error |-> e]

\* CharacterId::frame_data_url
frame_data_url(c) == "https://wiki.supercombo.gg/w/Street_Fighter_6/" \o c.frame_data_id \o "/Data"

\* request_data_page: reqwest::get(url).await?.text().await?, then
\* Html::parse_document.  reqwest::get gives Ok for a response of any status (the
\* code does not call error_for_status); the page is modelled already parsed.
request_data_page(character_id, net) ==
    IF net.kind = "send_error" THEN Err(net.error)
    ELSE IF net.kind = "body_error" THEN Err("body")
    ELSE Ok(net.body)

\* A variant of MovesOfPage that stops at the first pair whose parse yields nothing.
RECURSIVE take_while_some(_)
take_while_some(opts) ==
    IF opts = <<>> \/ ~Head(opts).some THEN <<>>
    ELSE <<Head(opts).value>> \o take_while_some(Tail(opts))

MovesOfPage_until_none(html) ==
    LET move_identifiers == select_move_identifiers(html)
        move_blocks      == select_move_blocks(html)
        pairs            == zip(move_identifiers, move_blocks)
    IN take_while_some([i \in 1..Len(pairs) |->
                           parse_move(inner_html(SpanAt(html, pairs[i][1])),
                                      TableAt(html, pairs[i][2]))])

\* The moves load collects from a page: the zipped pairs parsed, the Nones dropped.
MovesOfPage(html) ==
    LET move_identifiers == select_move_identifiers(html)
        move_blocks      == select_move_blocks(html)
        pairs            == zip(move_identifiers, move_blocks)
    IN collect_some([i \in 1..Len(pairs) |->
                        parse_move(inner_html(SpanAt(html, pairs[i][1])),
                                   TableAt(html, pairs[i][2]))])

LoaderMovesOfPage(html) ==
    LET move_identifiers == select_move_identifiers(html)
        move_blocks      == select_move_blocks(html)
        pairs            == zip(move_identifiers, move_blocks)
    IN collect_some([i \in 1..Len(pairs) |->
                        loader_parse_move(inner_html(SpanAt(html, pairs[i][1])),
                                          TableAt(html, pairs[i][2]))])

Panicked(e) == [state |-> "panicked", error |-> e]

\* framedata.rs: load.  Result::unwrap panics on Err.
load(character_id, net) ==
    LET html == request_data_page(character_id, net) IN
    IF ~html.ok THEN Panicked(html.error)
    ELSE Returned([character_id |-> character_id, moves |-> MovesOfPage(html.value)])

\* loader.rs: load.  The ? operator returns the Err to the caller.
loader_load(character_id, net) ==
    LET html == request_data_page(character_id, net) IN
    IF ~html.ok THEN Returned(Err(html.error))
    ELSE Returned(Ok(LoaderMovesOfPage(html.value)))

-----------------------------------------------------------------------------
(* load applied to what the network can answer.                            *)

MaxElems == 4        \* child elements of the sections of a page

T_FULL    == Table(<<D_BOTH>>, DataCells(1, 0, "wrapped"))
T_NOINPUT == Table(<<D_NAME>>, DataCells(1, 0, "wrapped"))
T_EMPTY   == [class_wikitable |-> TRUE, rows |-> <<>>]
T_PLAIN   == [tag |-> "table"] @@ [T_FULL EXCEPT !.class_wikitable = FALSE]

\* The kinds of element a section is made of; a header's span text names its place.
ElemKinds == { "h5", "h5_empty_span", "wikitable", "wikitable_no_input",
               "wikitable_empty", "plain_table" }

Elem(kind, i) ==
    CASE kind = "h5"                 -> H5(<< Leaf("m" \o ToString(i)) >>)
      [] kind = "h5_empty_span"      -> H5(<< Leaf("") >>)
      [] kind = "wikitable"          -> [tag |-> "table"] @@ T_FULL
      [] kind = "wikitable_no_input" -> [tag |-> "table"] @@ T_NOINPUT
      [] kind = "wikitable_empty"    -> [tag |-> "table"] @@ T_EMPTY
      [] kind = "plain_table"        -> T_PLAIN

\* The page whose elements are of the given kinds, a new section starting after
\* the first cut elements (cut = 0: one section).
Page(kinds, cut) ==
    LET elems == [i \in 1..Len(kinds) |-> Elem(kinds[i], i)] IN
    IF cut = 0 THEN << elems >>
    ELSE << SubSeq(elems, 1, cut), SubSeq(elems, cut + 1, Len(elems)) >>

\* The pages of at most n elements, in one section or two.
Pages(n) ==
    { Page(kc[1], kc[2]) :
        kc \in { x \in SeqsUpTo(ElemKinds, n) \X (0..n) : x[2] <= Len(x[1]) } }

\* The pages of three headers, each followed by its table, with or without an
\* input cell, in one section or two.
PairPages ==
    { Page(<< "h5", k[1], "h5", k[2], "h5", k[3] >>, cut) :
        k \in [1..3 -> { "wikitable", "wikitable_no_input" }], cut \in { 0, 2 } }

Response(status, body) == [kind |-> "response", status |-> status, body |-> body]

\* Answers without a page of moves: failures, and error pages with a non-2xx status.
FailedReplies ==
    { [kind |-> "send_error", error |-> e] : e \in { "dns", "connect", "timeout" } }
        \cup { [kind |-> "body_error", status |-> 200] }

ErrorPage == << << PARA >> >>

LoadCalls(n) ==
    { [op |-> "framedata::load", character_id |-> RYU, net |-> Response(200, page)] :
        page \in Pages(n) \cup PairPages }
    \cup
    { [op |-> f, character_id |-> CHARACTERS[i], net |-> r] :
        f \in { "framedata::load", "loader::load" },
        i \in 1..Len(CHARACTERS),
        r \in FailedReplies \cup { Response(404, ErrorPage), Response(500, Page(<<"h5", "wikitable">>, 0)) } }

InitLoad ==
    /\ call \in LoadCalls(MaxElems)
    /\ ret = Pending
    /\ LoadAllIdle

\* load runs to its end and returns a CharacterFrameData.
Call_load_returns ==
    /\ call.op = "framedata::load"
    /\ ret = Pending
    /\ load(call.character_id, call.net).state = "returned"
    /\ ret' = load(call.character_id, call.net)
    /\ UNCHANGED <<call, LoadAllVars>>

\* load panics in the unwrap of line 142.
Call_load_panics ==
    /\ call.op = "framedata::load"
    /\ ret = Pending
    /\ load(call.character_id, call.net).state = "panicked"
    /\ ret' = load(call.character_id, call.net)
    /\ UNCHANGED <<call, LoadAllVars>>

Call_loader_load ==
    /\ call.op = "loader::load"
    /\ ret = Pending
    /\ ret' = loader_load(call.character_id, call.net)
    /\ UNCHANGED <<call, LoadAllVars>>

NextLoad == Call_load_returns \/ Call_load_panics \/ Call_loader_load

SpecLoad == InitLoad /\ [][NextLoad]_vars

\* The page fetch of the call failed: no response, or a body that cannot be read.
FetchFailed == call.net.kind \in { "send_error", "body_error" }

\* C3: a framedata.rs load whose page fetch fails gives its caller an error value
\* (a TransportError the caller can handle): it neither panics nor returns a
\* CharacterFrameData.
C3_FetchFailureIsErrValue ==
    (call.op = "framedata::load" /\ ret # Pending /\ FetchFailed)
        => (ret.state = "returned" /\ ~ret.value.ok)

\* The sibling load of loader.rs returns the fetch failure as an Err.
C3_LoaderReturnsErr ==
    (call.op = "loader::load" /\ ret # Pending /\ FetchFailed)
        => (ret.state = "returned" /\ ~ret.value.ok)

\* The name anchor and the table are those of one header: the table is the
\* element right after the h5 that holds the anchor, in the same section.
SameHeader(id_ref, block_ref) ==
    id_ref.sec = block_ref.sec /\ block_ref.el = id_ref.el + 1

LoadedPage == call.op = "framedata::load" /\ call.net.kind = "response" /\ ret # Pending

\* C10: for every page the name-anchor sequence and the data-table sequence are
\* of equal length, and the i-th anchor and the i-th table belong to the same
\* header.
C10_SelectorsAligned ==
    LoadedPage =>
        LET ids    == select_move_identifiers(call.net.body)
            blocks == select_move_blocks(call.net.body)
        IN /\ Len(ids) = Len(blocks)
           /\ \A i \in 1..Len(ids) : SameHeader(ids[i], blocks[i])

\* The pairs that load zips belong to one header each.
C10_PairsAligned ==
    LoadedPage =>
        LET pairs == zip(select_move_identifiers(call.net.body),
                         select_move_blocks(call.net.body))
        IN \A i \in 1..Len(pairs) : SameHeader(pairs[i][1], pairs[i][2])

\* The pairs load makes of a page, and what parse_move gives for the i-th.
PairsOf(html) == zip(select_move_identifiers(html), select_move_blocks(html))
ParsedPair(html, i) ==
    parse_move(inner_html(SpanAt(html, PairsOf(html)[i][1])), TableAt(html, PairsOf(html)[i][2]))
Surviving(html) == { i \in 1..Len(PairsOf(html)) : ParsedPair(html, i).some }

\* C12: for a fetched page load returns a CharacterFrameData with the requested
\* character's id whose moves are exactly the Moves of the pairs that yield one,
\* in pair order: the j-th move is the Move of the j-th surviving pair; a pair
\* that yields nothing is skipped and fails nothing.
C12_MovesAreSurvivingPairsInOrder ==
    LoadedPage =>
        /\ ret.state = "returned"
        /\ ret.value.character_id = call.character_id
        /\ Len(ret.value.moves) = Cardinality(Surviving(call.net.body))
        /\ \A i \in Surviving(call.net.body) :
               ret.value.moves[Cardinality({ k \in Surviving(call.net.body) : k <= i })]
                   = ParsedPair(call.net.body, i).value

\* C12 witness: load returned for a page with a pair that yields nothing between
\* two pairs that yield a Move, and the moves are those two Moves in page order.
C12_Witness ==
    /\ LoadedPage
    /\ ret.state = "returned"
    /\ \E i, j, k \in 1..Len(PairsOf(call.net.body)) :
           /\ i < j /\ j < k
           /\ i \in Surviving(call.net.body)
           /\ j \notin Surviving(call.net.body)
           /\ k \in Surviving(call.net.body)
           /\ ret.value.moves = << ParsedPair(call.net.body, i).value,
                                   ParsedPair(call.net.body, k).value >>

-----------------------------------------------------------------------------
(* The query facade (impl FrameData).                                      *)

\* A variant of find_move_character that reports a missing character as UnknownMove.
find_move_character_wrong_tag(character_frame_data, character_id, move_query) ==
    LET cfd == Find(character_frame_data,
                    { i \in 1..Len(character_frame_data) :
                        CharacterIdEq(character_frame_data[i].character_id, character_id) })
    IN IF ~cfd.some THEN Err("UnknownMove")
       ELSE LET moves == cfd.value.moves
                found == Find(moves, { i \in 1..Len(moves) :
                                         eq_ignore_ascii_case(moves[i].identifier, move_query) })
            IN IF ~found.some THEN Err("UnknownMove") ELSE Ok(found.value)

\* A variant of find_move_character that compares identifiers exactly.
find_move_character_exact(character_frame_data, character_id, move_query) ==
    LET cfd == Find(character_frame_data,
                    { i \in 1..Len(character_frame_data) :
                        CharacterIdEq(character_frame_data[i].character_id, character_id) })
    IN IF ~cfd.some THEN Err("UnknownCharacter")
       ELSE LET moves == cfd.value.moves
                found == Find(moves, { i \in 1..Len(moves) : moves[i].identifier = move_query })
            IN IF ~found.some THEN Err("UnknownMove") ELSE Ok(found.value)

\* FrameData::find_move_character, self.character_frame_data given first.
find_move_character(character_frame_data, character_id, move_query) ==
    LET cfd == Find(character_frame_data,
                    { i \in 1..Len(character_frame_data) :
                        CharacterIdEq(character_frame_data[i].character_id, character_id) })
    IN IF ~cfd.some THEN Err("UnknownCharacter")
       ELSE LET moves == cfd.value.moves
                found == Find(moves, { i \in 1..Len(moves) :
                                         eq_ignore_ascii_case(moves[i].identifier, move_query) })
            IN IF ~found.some THEN Err("UnknownMove") ELSE Ok(found.value)

\* FrameData::find_move
find_move(character_frame_data, character_query, move_query) ==
    LET character_id_opt == get_character_by_regex(character_query) IN
    IF ~character_id_opt.some THEN Err("UnknownCharacter")
    ELSE find_move_character(character_frame_data, character_id_opt.value, move_query)

-----------------------------------------------------------------------------
(* load_all: one load task per roster entry in a JoinSet, joined in the    *)
(* order in which the tasks finish.                                        *)

RosterSize == 3      \* load_all is run over the first RosterSize entries of CHARACTERS

Roster == SubSeq(CHARACTERS, 1, RosterSize)

\* A page of two sections, each a header followed by its table: moves m1 and m3.
PAGE_MOVES == Page(<< "h5", "wikitable", "h5", "wikitable" >>, 2)

\* What the network may answer to a task of load_all.
LoadAllReplies ==
    { Response(200, PAGE_MOVES), Response(404, ErrorPage),
      [kind |-> "send_error", error |-> "timeout"], [kind |-> "body_error", status |-> 200] }

MoveQueries == { "m1", "M3", "5lp" }

Init ==
    /\ call = [op |-> "load_all"]
    /\ ret = Pending
    /\ pc = "spawn"
    /\ spawned = 0
    /\ task = [i \in 1..RosterSize |-> [state |-> "unspawned"]]
    /\ joinq = <<>>
    /\ frame_data = <<>>
    /\ log = <<>>

\* for character_id in CHARACTERS { set.spawn(load(character_id)); }
LoadAll_spawn ==
    /\ pc = "spawn"
    /\ spawned < RosterSize
    /\ spawned' = spawned + 1
    /\ task' = [task EXCEPT ![spawned + 1] =
                   [state |-> "running", character_id |-> CHARACTERS[spawned + 1]]]
    /\ UNCHANGED <<call, ret, pc, joinq, frame_data, log>>

\* The for loop ends; load_all reaches its first join_next().await.
LoadAll_spawned_all ==
    /\ pc = "spawn"
    /\ spawned = RosterSize
    /\ pc' = "join"
    /\ UNCHANGED <<call, ret, spawned, task, joinq, frame_data, log>>

\* A spawned load task gets its answer from the network and runs to its end: it
\* returns a CharacterFrameData or panics.  The runtime catches the panic and the
\* JoinSet reports it as a JoinError.
Task_finishes(i) ==
    /\ task[i].state = "running"
    /\ \E net \in LoadAllReplies :
          task' = [task EXCEPT ![i] = [state        |-> "finished",
                                       character_id |-> task[i].character_id,
                                       net          |-> net,
                                       result       |-> load(task[i].character_id, net)]]
    /\ joinq' = Append(joinq, i)
    /\ UNCHANGED <<call, ret, pc, spawned, frame_data, log>>

\* A variant of LoadAll_join_next that leaves the loop at the first JoinError.
LoadAll_join_next_breaks ==
    /\ pc = "join"
    /\ joinq # <<>>
    /\ LET i   == Head(joinq)
           res == task[i].result
       IN /\ IF res.state = "returned"
             THEN /\ frame_data' = Append(frame_data, res.value)
                  /\ UNCHANGED <<log, pc, ret>>
             ELSE /\ log' = Append(log, "Error handling character frame data loading future")
                  /\ pc' = "done"
                  /\ ret' = Returned([character_frame_data |-> frame_data])
                  /\ UNCHANGED frame_data
          /\ task' = [task EXCEPT ![i].state = "joined"]
    /\ joinq' = Tail(joinq)
    /\ UNCHANGED <<call, spawned>>

\* while let Some(res) = set.join_next().await { .. }: the next finished task is
\* taken; an Ok is pushed to the catalog, an Err is printed and skipped.
LoadAll_join_next ==
    /\ pc = "join"
    /\ joinq # <<>>
    /\ LET i   == Head(joinq)
           res == task[i].result
       IN /\ IF res.state = "returned"
             THEN /\ frame_data' = Append(frame_data, res.value)
                  /\ UNCHANGED log
             ELSE /\ log' = Append(log, "Error handling character frame data loading future")
                  /\ UNCHANGED frame_data
          /\ task' = [task EXCEPT ![i].state = "joined"]
    /\ joinq' = Tail(joinq)
    /\ UNCHANGED <<call, ret, pc, spawned>>

\* A variant of LoadAll_returns that returns as soon as no finished task waits to
\* be joined.
LoadAll_returns_early ==
    /\ pc = "join"
    /\ joinq = <<>>
    /\ pc' = "done"
    /\ ret' = Returned([character_frame_data |-> frame_data])
    /\ UNCHANGED <<call, spawned, task, joinq, frame_data, log>>

\* join_next() gives None once the set holds no task: load_all returns frame_data.
LoadAll_returns ==
    /\ pc = "join"
    /\ \A i \in 1..RosterSize : task[i].state = "joined"
    /\ pc' = "done"
    /\ ret' = Returned([character_frame_data |-> frame_data])
    /\ UNCHANGED <<call, spawned, task, joinq, frame_data, log>>

\* The caller queries the catalog load_all returned.
Call_find_move_character ==
    /\ pc = "done"
    /\ \E c \in 1..Len(Roster), q \in MoveQueries :
          /\ call' = [op |-> "find_move_character", character_id |-> Roster[c], move_query |-> q]
          /\ ret' = Returned(find_move_character(frame_data, Roster[c], q))
    /\ UNCHANGED LoadAllVars

Next ==
    \/ LoadAll_spawn
    \/ LoadAll_spawned_all
    \/ \E i \in 1..RosterSize : Task_finishes(i)
    \/ LoadAll_join_next
    \/ LoadAll_returns
    \/ Call_find_move_character

Spec == Init /\ [][Next]_vars

\* load_all is a future its caller awaits: the runtime polls it whenever it can
\* make a step.  Nothing is assumed here about when a load task finishes.
SpecFair ==
    /\ Spec
    /\ WF_vars(LoadAll_spawn)
    /\ WF_vars(LoadAll_spawned_all)
    /\ WF_vars(LoadAll_join_next)
    /\ WF_vars(LoadAll_returns)

\* The load task of roster entry i has ended in a panic (a failed load).
Failed(i) ==
    /\ task[i].state \in { "finished", "joined" }
    /\ task[i].result.state = "panicked"

Succeeded(i) ==
    /\ task[i].state \in { "finished", "joined" }
    /\ task[i].result.state = "returned"

EntriesOf(c) == { j \in 1..Len(frame_data) : frame_data[j].character_id.id = c.id }

\* C1: when load_all has returned and k of the loads failed, the catalog has
\* exactly RosterSize - k entries: one for each character whose load succeeded and
\* none for a character whose load failed, whatever the order of completion.
C1_OneEntryPerSuccessfulLoad ==
    pc = "done" =>
        /\ Len(frame_data) = RosterSize - Cardinality({ i \in 1..RosterSize : Failed(i) })
        /\ \A i \in 1..RosterSize :
              /\ Succeeded(i) => Cardinality(EntriesOf(Roster[i])) = 1
              /\ Failed(i) => EntriesOf(Roster[i]) = {}

\* C1 witness: load_all has returned, the first roster entry's load failed, every
\* other load succeeded, and the catalog holds RosterSize - 1 entries.
C1_Witness ==
    /\ pc = "done"
    /\ Failed(1)
    /\ \A i \in 2..RosterSize : Succeeded(i)
    /\ Len(frame_data) = RosterSize - 1

\* The answer is a network or HTTP failure: no response, an unreadable body, or a
\* response whose status is not 2xx.
Non2xx(net) == net.kind = "response" /\ net.status \notin 200..299
TransportFailure(net) == net.kind \in { "send_error", "body_error" } \/ Non2xx(net)

\* C2: the page fetch fails on every kind of network/HTTP failure, a non-2xx
\* response included: such a character's load fails and load_all adds no entry
\* for it.
C2_EveryTransportFailureFailsTheLoad ==
    \A i \in 1..RosterSize :
        (task[i].state \in { "finished", "joined" } /\ TransportFailure(task[i].net))
            => /\ Failed(i)
               /\ pc = "done" => EntriesOf(Roster[i]) = {}

\* A fetch without a response, or with an unreadable body, fails the load.
C2_NoResponseFailsTheLoad ==
    \A i \in 1..RosterSize :
        (task[i].state \in { "finished", "joined" }
            /\ task[i].net.kind \in { "send_error", "body_error" })
            => /\ Failed(i)
               /\ pc = "done" => EntriesOf(Roster[i]) = {}

\* C5: find_move_character returns UnknownCharacter whenever the catalog holds no
\* entry for the character asked for, also for a roster member whose load failed,
\* for every move text.
C5_AbsentCharacterIsUnknownCharacter ==
    (call.op = "find_move_character" /\ EntriesOf(call.character_id) = {})
        => ret = Returned(Err("UnknownCharacter"))

\* C5 witness: a roster member whose load failed was asked for after load_all
\* returned, and the answer was UnknownCharacter.
C5_Witness ==
    /\ call.op = "find_move_character"
    /\ \E i \in 1..RosterSize : Roster[i] = call.character_id /\ Failed(i)
    /\ \E i \in 1..RosterSize : Succeeded(i)
    /\ ret = Returned(Err("UnknownCharacter"))

-----------------------------------------------------------------------------
(* Queries on catalogs of any content.                                     *)

MaxMoves == 3        \* moves of a character of the catalog

\* The Move parse_move makes of a table with this input and name.
MoveOf(identifier, name) ==
    parse_move(identifier, Table(<< Div(<< P(<<"5LP">>), NameDiv(name) >>) >>, <<>>)).value

Identifiers == { "5LP", "5lp", "236P(x)", "É" }

\* The moves with these identifiers, each named after its place.
MovesOf(ids) == [i \in 1..Len(ids) |-> MoveOf(ids[i], "n" \o ToString(i))]

\* The catalogs whose entry for Ryu holds at most n moves.
Catalogs(n) ==
    { << >> }
    \cup { << [character_id |-> RYU, moves |-> MovesOf(ids)] >> :
              ids \in SeqsUpTo(Identifiers, n) }
    \cup { << [character_id |-> KEN, moves |-> MovesOf(<< "5LP" >>)],
              [character_id |-> RYU, moves |-> MovesOf(ids)] >> :
              ids \in SeqsUpTo(Identifiers, n) }

FindQueries == { "5LP", "5lp", "5Lp", "236p(X)", "É", "é", "5LPP", "" }

InitFind ==
    /\ call = [op |-> "load_all"]
    /\ pc = "done"
    /\ spawned = 0
    /\ task = <<>>
    /\ joinq = <<>>
    /\ frame_data \in Catalogs(MaxMoves)
    /\ ret = Returned([character_frame_data |-> frame_data])
    /\ log = <<>>

Query_find_move_character ==
    /\ pc = "done"
    /\ call.op = "load_all"
    /\ \E c \in { RYU, KEN, MBISON }, q \in FindQueries :
          /\ call' = [op |-> "find_move_character", character_id |-> c, move_query |-> q]
          /\ ret' = Returned(find_move_character(frame_data, c, q))
    /\ UNCHANGED LoadAllVars

NextFind == Query_find_move_character

SpecFind == InitFind /\ [][NextFind]_vars

\* x and y are the two cases of one letter of the given alphabet.
SameLetterOtherCase(x, y, uppers, lowers) ==
    \E k \in 1..Len(uppers) :
        \/ x = CharAt(uppers, k) /\ y = CharAt(lowers, k)
        \/ x = CharAt(lowers, k) /\ y = CharAt(uppers, k)

\* a and b are equal but for the case of letters of the given alphabet.
EqualUpToCase(a, b, uppers, lowers) ==
    /\ Len(a) = Len(b)
    /\ \A i \in 1..Len(a) :
          \/ CharAt(a, i) = CharAt(b, i)
          \/ SameLetterOtherCase(CharAt(a, i), CharAt(b, i), uppers, lowers)

\* For a character of the catalog, the answer is the first move whose identifier
\* is the move text up to the case of letters, and UnknownMove if there is none.
FirstMatchUpToCase(uppers, lowers) ==
    (call.op = "find_move_character" /\ EntriesOf(call.character_id) # {}) =>
        LET moves == frame_data[Min(EntriesOf(call.character_id))].moves
            hits  == { i \in 1..Len(moves) :
                         EqualUpToCase(moves[i].identifier, call.move_query, uppers, lowers) }
        IN ret = Returned(IF hits = {} THEN Err("UnknownMove") ELSE Ok(moves[Min(hits)]))

\* C6 as stated: find_move_character returns the first move whose identifier equals
\* the move text ignoring letter case (of any letter), and UnknownMove if and only
\* if no identifier matches.
C6_FirstMatchIgnoringLetterCase == FirstMatchUpToCase(Upper \o "É", Lower \o "é")

\* C6 as amended: find_move_character returns the first move whose identifier
\* equals the move text ignoring the case of ASCII letters only, and UnknownMove
\* if and only if no identifier matches so.
C6_FirstMatchIgnoringAsciiCase == FirstMatchUpToCase(Upper, Lower)

\* C6 witness: the character asked for holds two moves that match the move text up
\* to ASCII case, the text differs in case from the first, and the first was returned.
C6_Witness ==
    /\ call.op = "find_move_character"
    /\ EntriesOf(call.character_id) # {}
    /\ LET moves == frame_data[Min(EntriesOf(call.character_id))].moves IN
       \E i, j \in 1..Len(moves) :
          /\ i < j
          /\ moves[i].identifier # call.move_query
          /\ moves[j].identifier = call.move_query
          /\ EqualUpToCase(moves[i].identifier, call.move_query, Upper, Lower)
          /\ ret = Returned(Ok(moves[i]))

-----------------------------------------------------------------------------
(* load_all and the ends of its load tasks.                                 *)

\* The tasks launched so far that load character c.
LaunchedFor(c) ==
    { i \in 1..RosterSize : task[i].state # "unspawned" /\ task[i].character_id = c }

Ended(i) == task[i].state \in { "finished", "joined" }

\* When load_all has returned, one load was launched for each roster entry and
\* each of them has ended, returning or panicking, and has been joined.
ReturnedAfterEveryLoad ==
    pc = "done" =>
        /\ spawned = RosterSize
        /\ \A r \in 1..RosterSize : Cardinality(LaunchedFor(Roster[r])) = 1
        /\ \A i \in 1..RosterSize :
              /\ task[i].state = "joined"
              /\ task[i].result.state \in { "returned", "panicked" }

\* C13: load_all launches exactly one load per roster entry and returns only after
\* every launched load has returned or failed; and if every load eventually ends
\* (a load that has ended stays ended, so from then on all have), load_all
\* eventually returns.
C13_ReturnsOnceEveryLoadEnded ==
    /\ []ReturnedAfterEveryLoad
    /\ (\A i \in 1..RosterSize : Ended(i)) ~> (pc = "done")

\* C13 witness: load_all has returned, with a load that failed and a load that
\* did not among those it joined.
C13_Witness ==
    /\ pc = "done"
    /\ call.op = "load_all"
    /\ \E i, j \in 1..RosterSize : Failed(i) /\ Succeeded(j)

-----------------------------------------------------------------------------
(* find_move and find_move_character on one catalog.                       *)

\* The catalog load_all returns when every load succeeds, each character with
\* the moves 5LP and 236P(x).
FullCatalog ==
    [i \in 1..Len(CHARACTERS) |->
        [character_id |-> CHARACTERS[i], moves |-> MovesOf(<< "5LP", "236P(x)" >>)]]

\* Catalogs of every character, of none, and of the first eight.
FacadeCatalogs == { FullCatalog, << >>, SubSeq(FullCatalog, 1, 8) }

\* The character texts a caller passes: the machine keys, and some other names.
CharacterQueries ==
    { CHARACTERS[i].id : i \in 1..Len(CHARACTERS) } \cup { "bison", "gouki", "Chun-Li", "nobody" }

FacadeMoveQueries == { "5lp", "236P(X)", "9z" }

InitFacade ==
    /\ call = [op |-> "load_all"]
    /\ pc = "done"
    /\ spawned = 0
    /\ task = <<>>
    /\ joinq = <<>>
    /\ frame_data \in FacadeCatalogs
    /\ ret = Returned([character_frame_data |-> frame_data])
    /\ log = <<>>

Facade_find_move ==
    /\ pc = "done"
    /\ call.op = "load_all"
    /\ \E c \in CharacterQueries, q \in FacadeMoveQueries :
          /\ call' = [op |-> "find_move", character_query |-> c, move_query |-> q]
          /\ ret' = Returned(find_move(frame_data, c, q))
    /\ UNCHANGED LoadAllVars

Facade_find_move_character ==
    /\ pc = "done"
    /\ call.op = "load_all"
    /\ \E i \in 1..Len(CHARACTERS), q \in FacadeMoveQueries :
          /\ call' = [op |-> "find_move_character", character_id |-> CHARACTERS[i],
                      move_query |-> q]
          /\ ret' = Returned(find_move_character(frame_data, CHARACTERS[i], q))
    /\ UNCHANGED LoadAllVars

NextFacade == Facade_find_move \/ Facade_find_move_character

SpecFacade == InitFacade /\ [][NextFacade]_vars

\* find_move was called with the machine key of roster entry i.
FindMoveByKeyOf(i) ==
    call.op = "find_move" /\ call.character_query = CHARACTERS[i].id

\* C14: for every roster character c and every move text q, find_move(c.id, q)
\* returns what find_move_character(c, q) returns: the character's own machine
\* key resolves to that character.
C14_FindMoveByKeyIsFindMoveCharacter ==
    \A i \in 1..Len(CHARACTERS) :
        FindMoveByKeyOf(i) =>
            ret.value = find_move_character(frame_data, CHARACTERS[i], call.move_query)

\* Every machine key but M.Bison's resolves to its own character.
C14_AllButMBisonAgree ==
    \A i \in 1..Len(CHARACTERS) :
        (FindMoveByKeyOf(i) /\ CHARACTERS[i] # MBISON) =>
            ret.value = find_move_character(frame_data, CHARACTERS[i], call.move_query)

=============================================================================
